---- MODULE Spec2Model ----
(***************************************************************************)
(* Model of the inits lifecycle controller (lib/initSystem.js, second      *)
(* revision in the file) and of its task queue (TaskQueue with ordered     *)
(* buckets).  A task is an opaque callback: it is invoked once and signals *)
(* completion once, with or without an error, either inside its own body   *)
(* (synchronously) or in a later turn, or it throws and never signals      *)
(* completion (SpecT).  Every handler of the controller is                 *)
(* one action; the synchronous chain of calls a handler makes is computed  *)
(* on a record of the controller's fields by operators that carry the      *)
(* names of the functions of the source.                                   *)
(***************************************************************************)
EXTENDS Integers, Sequences, FiniteSets, TLC

VARIABLES
    taskQueues,     \* this.taskQueues: phase -> TaskQueue {ordered, unsorted}
    flags,          \* this.flags: phase -> completed
    standaloneTask, \* this.standaloneTask (0 is null)
    startingUp,     \* this.startingUp
    shuttingDown,   \* this.shuttingDown
    finished,       \* this.finished
    phase,          \* this.phase
    options,        \* this.options
    errorListener,  \* this.listeners('error').length > 0
    installed,      \* setupErrors() has registered the process handlers
    pending,        \* scheduled callbacks (setImmediate / setTimeout) not yet run
    inflight,       \* tasks invoked that have not signalled completion
    loop,           \* phases whose runInParallel while-loop is on the call stack, innermost first
    current,        \* task invoked last in the running turn (0: none, or no loop on the stack)
    received,       \* runInParallel closure: phase -> received
    total,          \* runInParallel closure: phase -> total
    errorCode,      \* argument of the shutdown() call in progress
    exitCode,       \* code passed to process.exit (NoExit: not called)
    reg,            \* registration calls made so far: task id -> [phase, order, accepted]
    emitted,        \* event name -> number of times it was emitted
    errors,         \* 'error' events delivered to the listener: [origin, message]
    invocations,    \* task id -> number of times the task was invoked
    outcome,        \* task id -> "none", or how the task signalled completion
    reports,        \* phase -> how many times its runner called back without / with an error
    log,            \* entries written with log.error: origin of the error, or "Error in phase"
    held,           \* phase -> the queue its runner was called with, once a second
                    \* startup() has put another queue into this.taskQueues
    timers,         \* tasks whose slow-task timer (setTimeout of run) is armed
    warned,         \* tasks the slow-task warning was logged for
    warnings,       \* texts written with log.warning by shutdown()
    request         \* the request that started the shutdown: who made it, whether a
                    \* task of init or start was in flight, the registrations so far

vars == <<taskQueues, flags, standaloneTask, startingUp, shuttingDown, finished,
          phase, options, errorListener, installed, pending, inflight, loop,
          current, received, total, errorCode, exitCode, reg, emitted, errors,
          invocations, outcome, reports, log, held, timers, warned, warnings,
          request>>

----------------------------------------------------------------------------
(* Bounds and constants *)

MaxTasks == 3

EVENTS == {"init", "start", "stop", "finish"}

NoOrder == 0

\* orders of the registrations of Spec (SpecQ draws them from Orders)
RegOrders == {NoOrder}

Orders == {1, 2, 10}


NoExit == -1
NoRequest == [by |-> "none", during |-> FALSE, tasks |-> 0]

ParallelSets == {{}, EVENTS}

AlreadyRun == 0 - 1

----------------------------------------------------------------------------
(* Key order of Array.prototype.sort() without comparator: keys are        *)
(* compared as strings of decimal digits.                                  *)

RECURSIVE Digits(_)
Digits(n) == IF n < 10 THEN <<n>> ELSE Append(Digits(n \div 10), n % 10)

RECURSIVE LexLess(_, _)
LexLess(a, b) ==
    IF a = <<>> THEN b # <<>>
    ELSE IF b = <<>> THEN FALSE
    ELSE IF Head(a) # Head(b) THEN Head(a) < Head(b)
    ELSE LexLess(Tail(a), Tail(b))

KeyLess(p, q) == LexLess(Digits(p), Digits(q))

----------------------------------------------------------------------------
(* TaskQueue *)

create == [ordered |-> [o \in Orders |-> <<>>], unsorted |-> <<>>]

\* the runner of a phase works on this.taskQueues[event] itself
NotHeld == [on |-> FALSE, queue |-> create]

\* add that puts the task in front of its bucket
addInFront(q, order, task) ==
    IF order = NoOrder
    THEN [q EXCEPT !.unsorted = <<task>> \o @]
    ELSE [q EXCEPT !.ordered[order] = <<task>> \o @]

add(q, order, task) ==
    IF order = NoOrder
    THEN [q EXCEPT !.unsorted = Append(@, task)]
    ELSE [q EXCEPT !.ordered[order] = Append(@, task)]

remaining(q) ==
    LET RECURSIVE Sum(_)
        Sum(S) == IF S = {} THEN 0
                  ELSE LET o == CHOOSE x \in S : TRUE
                       IN Len(q.ordered[o]) + Sum(S \ {o})
    IN Len(q.unsorted) + Sum(Orders)

\* firstBranch that looks at the unsorted tasks before the ordered ones
firstBranchUnsortedFirst(q) ==
    LET nonEmpty == {o \in Orders : q.ordered[o] # <<>>}
    IN IF nonEmpty = {} \/ q.unsorted # <<>> THEN NoOrder
       ELSE CHOOSE o \in nonEmpty : \A p \in nonEmpty \ {o} : KeyLess(o, p)

\* key of the first non-empty branch in the sorted key list (NoOrder: none)
firstBranch(q) ==
    LET nonEmpty == {o \in Orders : q.ordered[o] # <<>>}
    IN IF nonEmpty = {} THEN NoOrder
       ELSE CHOOSE o \in nonEmpty : \A p \in nonEmpty \ {o} : KeyLess(o, p)

\* next(): the task returned
nextTask(q) ==
    IF firstBranch(q) # NoOrder THEN Head(q.ordered[firstBranch(q)])
    ELSE Head(q.unsorted)

\* next() that reads the task without shifting it out of its array
nextQueueKeep(q) == q

\* next(): the queue left
nextQueue(q) ==
    IF firstBranch(q) # NoOrder
    THEN [q EXCEPT !.ordered[firstBranch(q)] = Tail(@)]
    ELSE [q EXCEPT !.unsorted = Tail(@)]

----------------------------------------------------------------------------
(* The controller's fields as one record, so that the synchronous chain of *)
(* calls made by a handler can be computed before it is assigned.          *)

St == [taskQueues |-> taskQueues, flags |-> flags, standaloneTask |-> standaloneTask,
       startingUp |-> startingUp, shuttingDown |-> shuttingDown,
       finished |-> finished, phase |-> phase, installed |-> installed,
       pending |-> pending, inflight |-> inflight, loop |-> loop,
       current |-> current, received |-> received, total |-> total,
       errorCode |-> errorCode, exitCode |-> exitCode, emitted |-> emitted,
       errors |-> errors, invocations |-> invocations, outcome |-> outcome,
       reports |-> reports, log |-> log, held |-> held, timers |-> timers,
       warned |-> warned,
       listener |-> errorListener]

Assign(s) ==
    /\ taskQueues' = s.taskQueues
    /\ flags' = s.flags
    /\ standaloneTask' = s.standaloneTask
    /\ startingUp' = s.startingUp
    /\ shuttingDown' = s.shuttingDown
    /\ finished' = s.finished
    /\ phase' = s.phase
    /\ installed' = s.installed
    /\ pending' = s.pending
    /\ inflight' = s.inflight
    /\ loop' = s.loop
    /\ current' = s.current
    /\ received' = s.received
    /\ total' = s.total
    /\ errorCode' = s.errorCode
    /\ exitCode' = s.exitCode
    /\ emitted' = s.emitted
    /\ errors' = s.errors
    /\ invocations' = s.invocations
    /\ outcome' = s.outcome
    /\ reports' = s.reports
    /\ log' = s.log
    /\ held' = s.held
    /\ timers' = s.timers
    /\ warned' = s.warned

\* names of the events the controller emits
EventNames ==
    {"startup", "ready", "shutdown", "end"}
        \cup {e \o "ing" : e \in EVENTS} \cup {e \o "ping" : e \in EVENTS}
        \cup {e \o "ed" : e \in EVENTS}

\* EventEmitter.emit for the events without a listener of the controller
emit(s, event) == [s EXCEPT !.emitted[event] = @ + 1]

\* process.exit(code): the process ends, nothing runs afterwards
exit(s, code) == [s EXCEPT !.exitCode = code]

\* phase a task was registered for
phaseOf(t) == reg[t].phase

----------------------------------------------------------------------------
(* InitSystem *)

RECURSIVE runAll(_, _)
RECURSIVE shutdown(_, _)

\* log.error under showErrors (warnings, notices and debug lines are left out)
\* log.error that writes nothing
loggedNowhere(s, entry) == s

logged(s, entry) == IF options.showErrors THEN [s EXCEPT !.log = @ \cup {entry}] ELSE s

\* startShutdownByError that ends the process whatever exitProcess says
startShutdownByErrorAlwaysExit(s, error) ==
    IF ~s.startingUp /\ ~s.shuttingDown
    THEN shutdown(logged(s, error), 1)
    ELSE exit([logged(s, error) EXCEPT !.finished = TRUE], 1)

\* startShutdownByError that never ends the process
startShutdownByErrorNoExit(s, error) ==
    IF ~s.startingUp /\ ~s.shuttingDown THEN shutdown(logged(s, error), 1) ELSE logged(s, error)

\* startShutdownByError that never begins a shutdown
startShutdownByErrorExitOnly(s, error) ==
    IF options.exitProcess THEN exit([s EXCEPT !.finished = TRUE], 1) ELSE s

startShutdownByError(s, error) ==
    LET s1 == logged(s, error)
    IN IF ~s1.startingUp /\ ~s1.shuttingDown
       THEN shutdown(s1, 1)
       ELSE IF options.exitProcess
            THEN exit([s1 EXCEPT !.finished = TRUE], 1)
            ELSE s1

\* manageInternalError that ends the process when nobody listens
manageInternalErrorUnheard(s, origin, message) ==
    IF s.listener
    THEN startShutdownByError(
             [s EXCEPT !.errors = @ \cup {[origin |-> origin, message |-> message]}],
             origin)
    ELSE exit(logged(s, origin), 1)

\* error is the pair (origin, message): origin names the text put before
\* the message, message is the failing task's error or a fixed text
manageInternalError(s, origin, message) ==
    startShutdownByError(
        IF s.listener
        THEN [s EXCEPT !.errors = @ \cup {[origin |-> origin, message |-> message]}]
        ELSE s,
        origin)

\* an uncaught exception or an error of the domain reaches the handlers of
\* setupErrors
manageCrash(s) ==
    IF ~options.catchErrors
    THEN s
    ELSE startShutdownByError(
             IF s.listener
             THEN [s EXCEPT !.errors = @ \cup {[origin |-> "crash", message |-> 0]}]
             ELSE s,
             "crash")

\* event.endsWith('p'): of the four phase names only 'stop' does
emitInProgress(s, event) ==
    IF event = "stop"
    THEN emit(emit(s, event \o "ing"), event \o "ping")
    ELSE emit(s, event \o "ing")

\* run up to the return of the task's body
run(s, task) ==
    [s EXCEPT !.timers = @ \cup {task},
              !.inflight = @ \cup {task},
              !.current = IF s.loop = <<>> THEN 0 ELSE task,
              !.invocations[task] = @ + 1]

\* clearTimeout that leaves the timer armed
clearTimeoutNever(s, task) == s

\* clearTimeout(timeout) in the function run hands to the task
clearTimeout(s, task) == [s EXCEPT !.timers = @ \ {task}]

\* runStandalone that never invokes the standalone task
runStandaloneUnscheduled(s) == [s EXCEPT !.phase = "standalone"]

\* the 'ready' listener installed by standalone()
runStandalone(s) ==
    [s EXCEPT !.phase = "standalone", !.pending = @ \cup {"standalone"}]

\* finishDone that emits 'end' whatever the finish phase reported
finishDoneAlways(s, error) ==
    LET s1 == [emit(s, "end") EXCEPT !.finished = TRUE]
    IN IF options.exitProcess THEN exit(s1, s.errorCode) ELSE s1

\* finishDone that always exits with code 0 after 'end'
finishDoneExitZero(s, error) ==
    IF error # 0
    THEN manageInternalError(s, "finish", error)
    ELSE LET s1 == [emit(s, "end") EXCEPT !.finished = TRUE]
         IN IF options.exitProcess THEN exit(s1, 0) ELSE s1

\* callback of runAll('finish') in shutdown
finishDone(s, error) ==
    IF error # 0
    THEN manageInternalError(s, "finish", error)
    ELSE LET s1 == [emit(s, "end") EXCEPT !.finished = TRUE]
         IN IF options.exitProcess THEN exit(s1, s.errorCode) ELSE s1

\* stopDone that runs the finish phase whatever the stop phase reported
stopDoneFinishAnyway(s, error) == runAll(s, "finish")

\* callback of runAll('stop') in shutdown
stopDone(s, error) ==
    IF error # 0
    THEN manageInternalError(s, "stop", error)
    ELSE runAll(s, "finish")

\* callback of runAll('start') in reallyStartup
startDone(s, error) ==
    IF error # 0
    THEN manageInternalError(s, "start", error)
    ELSE LET s1 == emit([s EXCEPT !.startingUp = FALSE], "ready")
         IN IF s1.standaloneTask # 0 THEN runStandalone(s1) ELSE s1

\* callback of runAll('init') in reallyStartup
initDone(s, error) ==
    IF error # 0
    THEN manageInternalError(s, "init", error)
    ELSE runAll(s, "start")

\* the callback runAll was called with
phaseDone(s, event, error) ==
    CASE event = "init" -> initDone(s, error)
      [] event = "start" -> startDone(s, error)
      [] event = "stop" -> stopDone(s, error)
      [] event = "finish" -> finishDone(s, error)

\* callback runAll passes to the runner
runnerDone(s, event, error) ==
    IF error # 0
    THEN phaseDone([s EXCEPT !.reports[event].error = @ + 1], event, error)
    ELSE phaseDone(emit([s EXCEPT !.flags[event] = TRUE, !.reports[event].ok = @ + 1],
                        event \o "ed"), event, 0)

\* the queue the runner of a phase works on: the argument it was called
\* with, which is this.taskQueues[event] unless startup() replaced it since
queueOf(s, event) ==
    IF s.held[event].on THEN s.held[event].queue ELSE s.taskQueues[event]

\* queue.next() on that queue
shift(s, event) ==
    IF s.held[event].on
    THEN [s EXCEPT !.held[event].queue = nextQueue(@)]
    ELSE [s EXCEPT !.taskQueues[event] = nextQueue(@)]

\* runQueue that invokes the next two tasks without waiting for the first
runQueueEager(s, event) ==
    IF remaining(queueOf(s, event)) = 0
    THEN runnerDone(s, event, 0)
    ELSE LET s1 == run(shift(s, event), nextTask(queueOf(s, event)))
         IN IF remaining(queueOf(s1, event)) = 0
            THEN s1
            ELSE run(shift(s1, event), nextTask(queueOf(s1, event)))

\* runQueue up to the invocation of the next task
runQueue(s, event) ==
    IF remaining(queueOf(s, event)) = 0
    THEN runnerDone(s, event, 0)
    ELSE run(shift(s, event), nextTask(queueOf(s, event)))

\* runQueueDone that goes on to the next task after an error
runQueueDoneContinue(s, event, error) == runQueue(s, event)

\* runQueueDone that stops at an error whatever stopOnError says
runQueueDoneAbort(s, event, error) ==
    IF error # 0 THEN runnerDone(s, event, error) ELSE runQueue(s, event)

\* callback that surfaces every error of a task, whatever stopOnError says
runQueueDoneSurface(s, event, error) ==
    IF error # 0
    THEN manageInternalError(s, event, error)
    ELSE runQueue(s, event)

\* callback runQueue passes to run
runQueueDone(s, event, error) ==
    LET s1 == IF error # 0 THEN logged(s, "Error in phase") ELSE s
    IN IF error # 0 /\ options.stopOnError
       THEN runnerDone(s1, event, error)
       ELSE runQueue(s1, event)

\* runInParallel up to the entry of its while loop
runInParallel(s, event) ==
    IF remaining(s.taskQueues[event]) = 0
    THEN runnerDone(s, event, 0)
    ELSE [s EXCEPT !.total[event] = remaining(s.taskQueues[event]),
                   !.received[event] = 0,
                   !.current = 0,
                   !.loop = <<event>> \o @]

\* callback of runInParallel that reports every error of a task when
\* stopOnError is on
runInParallelDoneEveryError(s, event, error) ==
    LET s0 == IF error # 0 THEN logged(s, "Error in phase") ELSE s
    IN IF error # 0 /\ options.stopOnError
       THEN runnerDone(s0, event, error)
       ELSE LET s1 == [s0 EXCEPT !.received[event] = @ + 1]
            IN IF s1.received[event] = s1.total[event]
               THEN runnerDone(s1, event, 0)
               ELSE s1

\* callback runInParallel passes to run
runInParallelDone(s, event, error) ==
    LET s0 == IF error # 0 THEN logged(s, "Error in phase") ELSE s
    IN IF error # 0 /\ options.stopOnError /\ s0.received[event] < s0.total[event]
       THEN runnerDone([s0 EXCEPT !.received[event] = @ + s0.total[event]], event, error)
       ELSE LET s1 == [s0 EXCEPT !.received[event] = @ + 1]
            IN IF s1.received[event] = s1.total[event]
               THEN runnerDone(s1, event, 0)
               ELSE s1

runAll(s, event) ==
    IF s.flags[event]
    THEN phaseDone(s, event, AlreadyRun)
    ELSE LET s1 == emitInProgress([s EXCEPT !.phase = event, !.held[event] = NotHeld],
                                  event)
         IN IF event \in options.parallel
            THEN runInParallel(s1, event)
            ELSE runQueue(s1, event)

\* shutdown that does not test shuttingDown
shutdownAgain(s, code) ==
    runAll(emit([s EXCEPT !.shuttingDown = TRUE, !.errorCode = code],
                "shutdown"), "stop")

shutdown(s, code) ==
    IF s.shuttingDown
    THEN s
    ELSE runAll(emit([s EXCEPT !.shuttingDown = TRUE, !.errorCode = code],
                     "shutdown"), "stop")

\* startup(): the queues are created anew and reallyStartup is scheduled;
\* a runner at work keeps the queue it was called with
startup(s) ==
    [s EXCEPT !.held = [e \in EVENTS |->
                          IF ~s.held[e].on
                             /\ (\/ \E i \in DOMAIN s.loop : s.loop[i] = e
                                 \/ \E t \in s.inflight : phaseOf(t) = e)
                          THEN [on |-> TRUE, queue |-> s.taskQueues[e]]
                          ELSE s.held[e]],
              !.taskQueues = [e \in EVENTS |-> create],
              !.pending = @ \cup {"startup"}]

\* reallyStartup that does not test startingUp
reallyStartupAnyway(s) ==
    runAll(emit([s EXCEPT !.startingUp = TRUE, !.installed = TRUE], "startup"), "init")

reallyStartup(s) ==
    IF s.startingUp
    THEN manageInternalError(s, "again", 0)
    ELSE runAll(emit([s EXCEPT !.startingUp = TRUE, !.installed = TRUE],
                     "startup"), "init")

----------------------------------------------------------------------------
(* Initial state: the controller as create() leaves it, before any         *)
(* registration; the deferred reallyStartup is scheduled.                  *)

OptionSets ==
    [stopOnError : BOOLEAN, exitProcess : BOOLEAN, catchSignals : {TRUE},
     catchErrors : {TRUE}, showErrors : {TRUE}, parallel : ParallelSets]

\* create() whose startup() calls reallyStartup at once, on the empty queues
CreatedStartingAtOnce ==
    /\ taskQueues = [e \in EVENTS |-> create]
    /\ flags = [e \in EVENTS |-> e \in {"init", "start"}]
    /\ standaloneTask = 0
    /\ startingUp = FALSE
    /\ shuttingDown = FALSE
    /\ finished = FALSE
    /\ phase = "start"
    /\ errorListener \in BOOLEAN
    /\ installed = TRUE
    /\ pending = {}
    /\ inflight = {}
    /\ loop = <<>>
    /\ current = 0
    /\ received = [e \in EVENTS |-> 0]
    /\ total = [e \in EVENTS |-> 0]
    /\ errorCode = 0
    /\ exitCode = NoExit
    /\ reg = <<>>
    /\ emitted = [e \in EventNames |->
                    IF e \in {"startup", "initing", "inited", "starting", "started", "ready"}
                    THEN 1 ELSE 0]
    /\ errors = {}
    /\ invocations = [t \in 1..MaxTasks |-> 0]
    /\ outcome = [t \in 1..MaxTasks |-> "none"]
    /\ reports = [e \in EVENTS |->
                    [ok |-> IF e \in {"init", "start"} THEN 1 ELSE 0, error |-> 0]]
    /\ log = {}
    /\ held = [e \in EVENTS |-> NotHeld]
    /\ timers = {}
    /\ warned = {}
    /\ warnings = {}
    /\ request = NoRequest

\* the controller after its construction, whatever its options
Created ==
    /\ taskQueues = [e \in EVENTS |-> create]
    /\ flags = [e \in EVENTS |-> FALSE]
    /\ standaloneTask = 0
    /\ startingUp = FALSE
    /\ shuttingDown = FALSE
    /\ finished = FALSE
    /\ phase = "pre"
    /\ errorListener \in BOOLEAN
    /\ installed = FALSE
    /\ pending = {"startup"}
    /\ inflight = {}
    /\ loop = <<>>
    /\ current = 0
    /\ received = [e \in EVENTS |-> 0]
    /\ total = [e \in EVENTS |-> 0]
    /\ errorCode = 0
    /\ exitCode = NoExit
    /\ reg = <<>>
    /\ emitted = [e \in EventNames |-> 0]
    /\ errors = {}
    /\ invocations = [t \in 1..MaxTasks |-> 0]
    /\ outcome = [t \in 1..MaxTasks |-> "none"]
    /\ reports = [e \in EVENTS |-> [ok |-> 0, error |-> 0]]
    /\ log = {}
    /\ held = [e \in EVENTS |-> NotHeld]
    /\ timers = {}
    /\ warned = {}
    /\ warnings = {}
    /\ request = NoRequest

Init == Created /\ options \in OptionSets

\* the process is alive and no synchronous loop of the controller is running
Idle == exitCode = NoExit /\ loop = <<>>

\* the process is alive and the body of a task may be running
InBody == exitCode = NoExit /\ (loop # <<>> => current # 0)

Kept == UNCHANGED <<options, errorListener>>

Fixed == Kept /\ UNCHANGED <<request, warnings>>

----------------------------------------------------------------------------
(* Actions *)

\* Register that does not test the flag of the phase
RegisterAnyway(event, order) ==
    /\ InBody
    /\ Len(reg) < MaxTasks
    /\ reg' = Append(reg, [phase |-> event, order |-> order, accepted |-> TRUE])
    /\ Assign([St EXCEPT !.taskQueues[event] = add(@, order, Len(reg) + 1)])
    /\ Fixed

\* the caller registers a task: init / start / stop / finish (order, task)
Register(event, order) ==
    /\ InBody
    /\ Len(reg) < MaxTasks
    /\ LET task == Len(reg) + 1
       IN IF flags[event]
          THEN /\ reg' = Append(reg, [phase |-> event, order |-> order, accepted |-> FALSE])
               /\ Assign(manageInternalError(St, "add", 0))
          ELSE /\ reg' = Append(reg, [phase |-> event, order |-> order, accepted |-> TRUE])
               /\ Assign([St EXCEPT !.taskQueues[event] = add(@, order, task)])
    /\ Fixed

\* the caller calls init / start / stop / finish without a task: the call
\* is recorded under a task id that stands for no task
RegisterNoTask(event) ==
    /\ InBody
    /\ Len(reg) < MaxTasks
    /\ reg' = Append(reg, [phase |-> event, order |-> NoOrder, accepted |-> FALSE])
    /\ Assign(manageInternalError(St, IF flags[event] THEN "add" ELSE "empty", 0))
    /\ Fixed

\* standalone that replaces the task already registered
StandaloneReplace ==
    /\ Idle
    /\ Len(reg) < MaxTasks
    /\ reg' = Append(reg, [phase |-> "standalone", order |-> NoOrder, accepted |-> TRUE])
    /\ Assign([St EXCEPT !.standaloneTask = Len(reg) + 1])
    /\ Fixed

\* the caller calls standalone(task)
Standalone ==
    /\ Idle
    /\ Len(reg) < MaxTasks
    /\ LET task == Len(reg) + 1
       IN IF standaloneTask # 0
          THEN /\ reg' = Append(reg, [phase |-> "standalone", order |-> NoOrder, accepted |-> FALSE])
               /\ Assign(manageInternalError(St, "already", 0))
          ELSE /\ reg' = Append(reg, [phase |-> "standalone", order |-> NoOrder, accepted |-> TRUE])
               /\ Assign([St EXCEPT !.standaloneTask = task])
    /\ Fixed

\* the timer set by startup() fires
ReallyStartup ==
    /\ Idle
    /\ "startup" \in pending
    /\ Assign(reallyStartup([St EXCEPT !.pending = @ \ {"startup"}]))
    /\ UNCHANGED reg
    /\ Fixed

\* loop of runInParallel that starts a task only when none of the phase is
\* in flight
whileRemainingOneByOne(s, event) ==
    IF remaining(queueOf(s, event)) = 0
    THEN [s EXCEPT !.loop = Tail(@), !.current = 0]
    ELSE IF \E t \in s.inflight : phaseOf(t) = event
         THEN s
         ELSE run(shift(s, event), nextTask(queueOf(s, event)))

\* one test of the condition of the while loop of runInParallel, and the
\* body when it holds
whileRemaining(s, event) ==
    IF remaining(queueOf(s, event)) = 0
    THEN [s EXCEPT !.loop = Tail(@), !.current = 0]
    ELSE run(shift(s, event), nextTask(queueOf(s, event)))

\* the while loop of the innermost runInParallel tests its condition: it
\* starts the next task, or returns when the queue is empty
ParallelStep ==
    /\ exitCode = NoExit
    /\ loop # <<>>
    /\ Assign(whileRemaining(St, Head(loop)))
    /\ UNCHANGED reg
    /\ Fixed

\* a task calls the function it was given: error is 0 (no error) or the
\* task's own message
taskCallback(s, task, error) ==
    LET s1 == [s EXCEPT !.inflight = @ \ {task}, !.current = 0,
                        !.outcome[task] = IF error = 0 THEN "ok" ELSE "error"]
        s2 == clearTimeout(s1, task)
    IN IF phaseOf(task) = "standalone"
       THEN IF error # 0
            THEN manageInternalError(s1, "standalone", error)
            ELSE [s1 EXCEPT !.pending = @ \cup {"shutdown"}]
       ELSE IF phaseOf(task) \in options.parallel
            THEN runInParallelDone(s2, phaseOf(task), error)
            ELSE runQueueDone(s2, phaseOf(task), error)

Complete(task, error) ==
    /\ exitCode = NoExit
    /\ task \in inflight
    /\ loop # <<>> => task = current
    /\ Assign(taskCallback(St, task, error))
    /\ UNCHANGED reg
    /\ Fixed

\* a throw inside a task handled as if the task had called back with an error
taskThrowsAsError(s, task) == taskCallback(s, task, task)

\* a task of a phase throws instead of calling back: the stack unwinds to
\* the event loop, the domain hands the error to the handler of setupErrors,
\* and the function given to the task is never called
taskThrows(s, task) ==
    manageCrash([s EXCEPT !.inflight = @ \ {task}, !.current = 0,
                          !.outcome[task] = "thrown"])

TaskThrows ==
    \E task \in inflight :
        /\ Idle
        /\ phaseOf(task) \in EVENTS
        /\ Assign(taskThrows(St, task))
        /\ UNCHANGED reg
        /\ Fixed

\* the timer set by run for a task fires: the warning is logged
SlowTask ==
    \E task \in timers :
        /\ Idle
        /\ Assign([St EXCEPT !.timers = @ \ {task}, !.warned = @ \cup {task}])
        /\ UNCHANGED reg
        /\ Fixed

TaskSucceeds == \E task \in inflight : Complete(task, 0)

TaskFails == \E task \in inflight : Complete(task, task)

\* the setImmediate of runStandalone fires: the standalone task is invoked
StandaloneTick ==
    /\ Idle
    /\ "standalone" \in pending
    /\ Assign([St EXCEPT !.pending = @ \ {"standalone"},
                         !.inflight = @ \cup {standaloneTask},
                         !.invocations[standaloneTask] = @ + 1])
    /\ UNCHANGED reg
    /\ Fixed

\* the setImmediate set when the standalone task succeeded fires
ShutdownTick ==
    /\ Idle
    /\ "shutdown" \in pending
    /\ Assign(shutdown([St EXCEPT !.pending = @ \ {"shutdown"}], 0))
    /\ UNCHANGED reg
    /\ Fixed

\* the caller calls shutdown()
Shutdown ==
    /\ Idle
    /\ Assign(shutdown(St, 0))
    /\ UNCHANGED reg
    /\ Fixed

\* signalled that does not test catchSignals
signalledAlways(s) == shutdown(s, 0)

\* SIGINT or SIGTERM is delivered: with catchSignals off setupErrors
\* installed no handler, and signalled() itself returns at once
signalled(s) == IF ~options.catchSignals THEN s ELSE shutdown(s, 0)

Signal ==
    /\ Idle
    /\ installed
    /\ Assign(signalled(St))
    /\ UNCHANGED reg
    /\ Fixed

\* a callback of the application that runs in a turn of its own throws
Crash ==
    /\ Idle
    /\ installed
    /\ options.catchErrors
    /\ Assign(manageCrash(St))
    /\ UNCHANGED reg
    /\ Fixed

\* 'beforeExit': the event loop has nothing left to run
BeforeExit ==
    /\ Idle
    /\ installed
    /\ options.catchErrors
    /\ pending = {}
    /\ ~shuttingDown
    /\ Assign(shutdown(St, 0))
    /\ UNCHANGED reg
    /\ Fixed

Next ==
    \/ \E event \in EVENTS, order \in RegOrders : Register(event, order)
    \/ Standalone
    \/ ReallyStartup
    \/ ParallelStep
    \/ TaskSucceeds
    \/ TaskFails
    \/ StandaloneTick
    \/ ShutdownTick
    \/ Shutdown
    \/ Signal
    \/ BeforeExit

Spec == Init /\ [][Next]_vars

----------------------------------------------------------------------------
(* Third specification, for the handling of errors: the phases run         *)
(* sequentially, and the application also makes registration calls without *)
(* a task and throws in callbacks of its own.                              *)

EOptionSets == {o \in OptionSets : o.parallel = {}}

InitE == Init /\ options \in EOptionSets

NextE ==
    \/ \E event \in EVENTS, order \in RegOrders : Register(event, order)
    \/ \E event \in EVENTS : RegisterNoTask(event)
    \/ Standalone
    \/ ReallyStartup
    \/ TaskSucceeds
    \/ TaskFails
    \/ StandaloneTick
    \/ ShutdownTick
    \/ Shutdown
    \/ Signal
    \/ BeforeExit
    \/ Crash

SpecE == InitE /\ [][NextE]_vars

----------------------------------------------------------------------------
(* Fourth specification, for the requests of shutdown: signals are         *)
(* delivered with catchSignals on and off, and the request that starts the *)
(* shutdown is recorded.                                                   *)

SOptionSets ==
    [stopOnError : BOOLEAN, exitProcess : BOOLEAN, catchSignals : BOOLEAN,
     catchErrors : {TRUE}, showErrors : {TRUE}, parallel : {{}, {"stop"}}]

InitS == Created /\ options \in SOptionSets /\ errorListener = FALSE

\* records the request of the step if it is the one that starts the shutdown
Observed(by) ==
    request' =
        IF ~shuttingDown /\ shuttingDown'
        THEN [by |-> by,
              during |-> \E u \in inflight : phaseOf(u) \in {"init", "start"},
              tasks |-> Len(reg)]
        ELSE request

\* the caller calls shutdown()
ShutdownObserved ==
    /\ Idle
    /\ Assign(shutdown(St, 0))
    /\ Observed("call")
    /\ UNCHANGED <<reg, warnings>>
    /\ Kept

\* SIGINT or SIGTERM is delivered
SignalObserved ==
    /\ Idle
    /\ installed
    /\ Assign(signalled(St))
    /\ Observed("signal")
    /\ UNCHANGED <<reg, warnings>>
    /\ Kept

NextS ==
    \/ \E event \in EVENTS : Register(event, NoOrder)
    \/ ReallyStartup
    \/ ParallelStep
    \/ TaskSucceeds
    \/ TaskFails
    \/ ShutdownObserved
    \/ SignalObserved

SpecS == InitS /\ [][NextS]_vars

----------------------------------------------------------------------------
(* Fifth specification, for what happens while a task runs: the phases run *)
(* sequentially, a task may throw instead of calling back, and the timer   *)
(* armed for a task may fire.                                              *)

TOptionSets ==
    [stopOnError : BOOLEAN, exitProcess : BOOLEAN, catchSignals : {TRUE},
     catchErrors : {TRUE}, showErrors : {TRUE}, parallel : {{}}]

InitT == Created /\ options \in TOptionSets /\ errorListener = FALSE

NextT ==
    \/ \E event \in EVENTS : Register(event, NoOrder)
    \/ ReallyStartup
    \/ TaskSucceeds
    \/ TaskFails
    \/ TaskThrows
    \/ SlowTask
    \/ Shutdown

SpecT == InitT /\ [][NextT]_vars

----------------------------------------------------------------------------
(* Sixth specification, for the 'error' listener: the specification of the *)
(* handling of errors, with and without a listener, in which the shutdown  *)
(* is requested by signals, by the standalone task and by errors only.     *)

NextL ==
    \/ \E event \in EVENTS : Register(event, NoOrder)
    \/ \E event \in EVENTS : RegisterNoTask(event)
    \/ Standalone
    \/ ReallyStartup
    \/ TaskSucceeds
    \/ TaskFails
    \/ StandaloneTick
    \/ ShutdownTick
    \/ Signal
    \/ Crash

SpecL == InitE /\ [][NextL]_vars

----------------------------------------------------------------------------
(* Seventh specification, for the misuse of the controller: the            *)
(* application calls startup() again and shutdown() again, with showErrors *)
(* on and off, and the warnings of shutdown() are recorded; the tasks      *)
(* succeed.                                                                *)

UOptionSets ==
    [stopOnError : {TRUE}, exitProcess : BOOLEAN, catchSignals : {TRUE},
     catchErrors : {TRUE}, showErrors : BOOLEAN, parallel : {{}}]

InitU == Created /\ options \in UOptionSets

\* the caller calls startup() once the startup scheduled by create() has run
StartupAgain ==
    /\ Idle
    /\ "startup" \notin pending
    /\ Assign(startup(St))
    /\ UNCHANGED reg
    /\ Fixed

\* the caller calls shutdown(); the warning of a shutdown already begun
\* is recorded
ShutdownLogged ==
    /\ Idle
    /\ Assign(shutdown(St, 0))
    /\ warnings' = IF shuttingDown /\ options.showErrors
                   THEN warnings \cup {"Could not shutdown again"}
                   ELSE warnings
    /\ UNCHANGED <<reg, request>>
    /\ Kept

NextU ==
    \/ \E event \in EVENTS : Register(event, NoOrder)
    \/ Standalone
    \/ ReallyStartup
    \/ StartupAgain
    \/ TaskSucceeds
    \/ ShutdownLogged

SpecU == InitU /\ [][NextU]_vars

----------------------------------------------------------------------------
(* Second specification, for the order of the tasks of one queue: the      *)
(* registrations draw their order from Orders, the options that do not     *)
(* bear on the queue are fixed.                                            *)

QOptionSets ==
    [stopOnError : BOOLEAN, exitProcess : {FALSE}, catchSignals : {TRUE},
     catchErrors : {TRUE}, showErrors : {TRUE}, parallel : ParallelSets]

\* phases the registrations of SpecQ are made for
QEvents == {"init"}

InitQ == Init /\ options \in QOptionSets /\ errorListener = FALSE

NextQ ==
    \/ \E event \in QEvents, order \in Orders \cup {NoOrder} : Register(event, order)
    \/ ReallyStartup
    \/ ParallelStep
    \/ TaskSucceeds
    \/ TaskFails
    \/ Shutdown

SpecQ == InitQ /\ [][NextQ]_vars

----------------------------------------------------------------------------
(* Eighth specification, for what eventually happens: no task fails, and   *)
(* the work the event loop owes is eventually done: a scheduled callback   *)
(* runs, the loop of runInParallel goes on, a task invoked calls back.     *)
(* The calls of the application and the signals are under no obligation.   *)

FOptionSets ==
    [stopOnError : {TRUE}, exitProcess : BOOLEAN, catchSignals : {TRUE},
     catchErrors : {TRUE}, showErrors : {TRUE}, parallel : ParallelSets]

\* phases the registrations of SpecF are made for
FEvents == {"init", "stop"}

InitF == Init /\ options \in FOptionSets /\ errorListener = FALSE

NextF ==
    \/ \E event \in FEvents : Register(event, NoOrder)
    \/ Standalone
    \/ ReallyStartup
    \/ ParallelStep
    \/ TaskSucceeds
    \/ StandaloneTick
    \/ ShutdownTick
    \/ Shutdown
    \/ Signal

\* a step of the work owed: the work is finite, so that doing some of it
\* again and again does all of it
EventLoop ==
    \/ ReallyStartup
    \/ ParallelStep
    \/ TaskSucceeds
    \/ StandaloneTick
    \/ ShutdownTick

SpecF == InitF /\ [][NextF]_vars /\ WF_vars(EventLoop)

----------------------------------------------------------------------------
(* Vocabulary of the properties *)

Tasks == 1..Len(reg)

\* tasks a registration call put into the queue of a phase
TasksOf(event) == {t \in Tasks : reg[t].phase = event /\ reg[t].accepted}

Invoked(t) == invocations[t] > 0

Signalled(t) == outcome[t] # "none"

\* tasks this step invokes
Started == {t \in 1..MaxTasks : invocations'[t] > invocations[t]}

----------------------------------------------------------------------------
(* Order of the phases *)

\* C1: when a start task has been invoked, the init flag is set, the init
\* runner has reported no failure and every task accepted into the init
\* queue has signalled completion.
C1_InitBeforeStart ==
    (\E t \in TasksOf("start") : Invoked(t))
        => /\ flags["init"]
           /\ reports["init"].error = 0
           /\ \A u \in TasksOf("init") : Signalled(u)

\* C2: when 'ready' has been emitted, the start flag is set, neither the
\* init nor the start runner has reported a failure and every task accepted
\* into the start queue has signalled completion.
C2_ReadyAfterStart ==
    emitted["ready"] > 0
        => /\ flags["start"]
           /\ reports["init"].error = 0
           /\ reports["start"].error = 0
           /\ \A u \in TasksOf("start") : Signalled(u)

\* C3: when a finish task has been invoked, the stop flag is set and every
\* task accepted into the stop queue has signalled completion.
C3_StopBeforeFinish ==
    (\E t \in TasksOf("finish") : Invoked(t))
        => /\ flags["stop"]
           /\ \A u \in TasksOf("stop") : Signalled(u)

\* C4: 'end' is emitted at most once, and only when the stop and the finish
\* flag are set and neither runner has reported a failure.
C4_EndOnlyAfterShutdown ==
    /\ emitted["end"] <= 1
    /\ emitted["end"] > 0
        => /\ flags["stop"] /\ flags["finish"]
           /\ reports["stop"].error = 0
           /\ reports["finish"].error = 0

\* C4 witness: 'end' was emitted after a stop and a finish task completed.
C4_Witness ==
    /\ emitted["end"] = 1
    /\ \E t \in TasksOf("stop") : Signalled(t)
    /\ \E t \in TasksOf("finish") : Signalled(t)

----------------------------------------------------------------------------
(* The standalone task *)

\* calls of standalone() made so far
StandaloneRegs == {t \in Tasks : reg[t].phase = "standalone"}

\* 'ready' was emitted with a standalone task registered: the task is
\* scheduled or has been invoked
StandaloneDue ==
    standaloneTask # 0 /\ ("standalone" \in pending \/ Invoked(standaloneTask))

\* C5: the standalone task is invoked only after 'ready', and once
\* it is due (registered when 'ready' was emitted) no shutdown request from
\* outside or signal begins the shutdown before it has signalled completion.
C5_StandaloneBeforeStop ==
    /\ [](standaloneTask # 0 /\ Invoked(standaloneTask) => emitted["ready"] > 0)
    /\ [][(StandaloneDue /\ ~shuttingDown /\ shuttingDown'
                /\ (Shutdown \/ Signal \/ BeforeExit))
            => Signalled(standaloneTask)']_vars

\* C6: no standalone task is invoked twice and at most one is ever invoked;
\* the first registered standalone task stays in place; every further
\* standalone() call is refused, its task is never invoked, and the refusal
\* is delivered to a registered 'error' listener.
C6_SingleStandalone ==
    /\ \A t \in StandaloneRegs : invocations[t] <= 1
    /\ Cardinality({t \in StandaloneRegs : Invoked(t)}) <= 1
    /\ \A t \in StandaloneRegs :
          IF \A u \in StandaloneRegs : t <= u
          THEN standaloneTask = t /\ reg[t].accepted
          ELSE /\ ~reg[t].accepted
               /\ ~Invoked(t)
               /\ errorListener => [origin |-> "already", message |-> 0] \in errors
    /\ StandaloneRegs = {} => standaloneTask = 0

\* C6 witness: a second standalone() call was made and the standalone task
\* has run once.
C6_Witness ==
    /\ Cardinality(StandaloneRegs) >= 2
    /\ standaloneTask # 0
    /\ invocations[standaloneTask] = 1
    /\ Signalled(standaloneTask)

----------------------------------------------------------------------------
(* Order of the tasks of one phase *)

\* C7: a step that invokes a task registered with order q leaves
\* no task with a smaller order p waiting in the queue of that phase.
C7_SmallerOrderFirst ==
    [][\A t \in Started :
          reg[t].order # NoOrder
              => \A p \in Orders :
                    p < reg[t].order => taskQueues[phaseOf(t)].ordered[p] = <<>>]_vars

\* C8 as stated: when a task registered without an order has been invoked,
\* every task registered with an order in that phase has been invoked, and
\* in sequential mode has signalled completion.
C8_OrderedBeforeUnordered ==
    \A event \in EVENTS : \A u \in TasksOf(event), o \in TasksOf(event) :
        (reg[u].order = NoOrder /\ reg[o].order # NoOrder /\ Invoked(u))
            => /\ Invoked(o)
               /\ event \notin options.parallel => Signalled(o)

\* C8 amended: a step that invokes a task registered without an order finds
\* no task registered with an order waiting in the queue of that phase, and
\* in sequential mode leaves none of them in flight (a task registered with
\* an order after an unordered task was dequeued runs after it).
C8_OrderedWaitingBeforeUnordered ==
    [][\A t \in Started :
          (phaseOf(t) \in EVENTS /\ reg[t].order = NoOrder)
              => /\ \A p \in Orders : taskQueues[phaseOf(t)].ordered[p] = <<>>
                 /\ phaseOf(t) \notin options.parallel
                       => \A o \in inflight' :
                             ~(phaseOf(o) = phaseOf(t) /\ reg[o].order # NoOrder)]_vars

\* C8 witness: sequential mode, an unordered task was invoked after an
\* ordered task of its phase, registered after it, had completed.
C8_Witness ==
    \E u \in TasksOf("init"), o \in TasksOf("init") :
        /\ "init" \notin options.parallel
        /\ u < o
        /\ reg[u].order = NoOrder /\ reg[o].order # NoOrder
        /\ Signalled(o) /\ Invoked(u)

\* C9: in sequential mode a step that invokes a task finds every task added
\* earlier to the same bucket of the phase already invoked, and no task
\* added later to that bucket invoked.
C9_InsertionOrder ==
    [][\A t \in Started :
          (phaseOf(t) \in EVENTS /\ phaseOf(t) \notin options.parallel)
              => \A u \in TasksOf(phaseOf(t)) :
                    (u # t /\ reg[u].order = reg[t].order) => (Invoked(u) <=> u < t)]_vars

\* C9 witness: sequential mode, two tasks of one ordered bucket of a phase
\* have both been invoked.
C9_Witness ==
    /\ "init" \notin options.parallel
    /\ \E t \in TasksOf("init"), u \in TasksOf("init") :
          /\ t < u /\ reg[t].order = reg[u].order /\ reg[t].order # NoOrder
          /\ Invoked(t) /\ Invoked(u)

----------------------------------------------------------------------------
(* Errors of the init phase *)

\* init tasks that signalled an error
FailedInit == {t \in TasksOf("init") : outcome[t] = "error"}

\* C10 as stated: with stopOnError on, once an init task has signalled an
\* error no step invokes a task of the init or of the start phase, and every
\* 'error' event delivered to the listener from then on carries the message
\* of a failed init task.
C10_InitErrorStopsStartup ==
    [][(options.stopOnError /\ FailedInit' # {})
          => /\ \A t \in Started : phaseOf(t) \notin {"init", "start"}
             /\ \A x \in errors' \ errors : x.message \in FailedInit']_vars

\* C10 amended: with stopOnError on and the init phase run sequentially,
\* once an init task has signalled an error no step invokes a task of the
\* init or of the start phase, exactly one init task has failed, and the
\* only 'error' event of the startup sequence delivered to the listener is
\* the one of the init phase carrying that task's message (events of other
\* origins, a usage error or a later shutdown, may follow).
C10_SequentialInitErrorStopsStartup ==
    [][(options.stopOnError /\ "init" \notin options.parallel /\ FailedInit' # {})
          => /\ \A t \in Started : phaseOf(t) \notin {"init", "start"}
             /\ Cardinality(FailedInit') = 1
             /\ \A x \in errors' :
                   x.origin \in {"init", "start"}
                       => x.origin = "init" /\ x.message \in FailedInit'
             /\ errorListener => \E x \in errors' : x.origin = "init"]_vars

\* C10 witness: sequential init with stopOnError, the first init task failed
\* and its error reached the listener; a second init task and a start task
\* are still waiting.
C10_Witness ==
    /\ options.stopOnError /\ "init" \notin options.parallel /\ errorListener
    /\ \E f \in FailedInit : [origin |-> "init", message |-> f] \in errors
    /\ \E t \in TasksOf("init") : ~Invoked(t)
    /\ \E t \in TasksOf("start") : ~Invoked(t)

\* C11: with stopOnError on, exitProcess off and no 'error' listener, once
\* an init task has signalled an error and no shutdown was requested from
\* outside (a shutdown requested by shutdown(), a signal or beforeExit
\* carries the exit code 0), no step invokes a stop or a finish task or
\* emits 'end'.
C11_NoShutdownAfterInitError ==
    [][(/\ options.stopOnError /\ ~options.exitProcess /\ ~errorListener
        /\ FailedInit' # {}
        /\ ~(shuttingDown' /\ errorCode' = 0))
          => /\ \A t \in Started : phaseOf(t) \notin {"stop", "finish"}
             /\ emitted'["end"] = emitted["end"]]_vars

----------------------------------------------------------------------------
(* Errors that do not stop a phase *)

\* tasks that signal an error in this step
Failing == {t \in 1..MaxTasks : outcome[t] = "none" /\ outcome'[t] = "error"}

\* C12: with stopOnError off, a step in which a task of a sequentially run
\* phase signals an error invokes the next task of the phase when one is
\* waiting; when none is waiting the step sets the flag of the phase and
\* emits its exit event, begins the finish phase when the phase is stop, and
\* emits 'end' when the phase is finish.
C12_ErrorDoesNotAbortPhase ==
    [][\A t \in Failing :
          (~options.stopOnError /\ phaseOf(t) \in EVENTS /\ phaseOf(t) \notin options.parallel)
              => IF remaining(taskQueues[phaseOf(t)]) > 0
                 THEN /\ nextTask(taskQueues[phaseOf(t)]) \in Started
                      /\ ~flags'[phaseOf(t)]
                 ELSE /\ flags'[phaseOf(t)]
                      /\ emitted'[phaseOf(t) \o "ed"] = emitted[phaseOf(t) \o "ed"] + 1
                      /\ phaseOf(t) = "stop" => emitted'["finishing"] = emitted["finishing"] + 1
                      /\ phaseOf(t) = "finish" => emitted'["end"] = emitted["end"] + 1]_vars

\* C12 witness: sequential mode with stopOnError off, a finish task
\* signalled an error, a finish task registered after it was invoked and
\* 'end' was emitted.
C12_Witness ==
    /\ ~options.stopOnError /\ "finish" \notin options.parallel
    /\ emitted["end"] = 1
    /\ \E t \in TasksOf("finish"), u \in TasksOf("finish") :
          t < u /\ outcome[t] = "error" /\ Invoked(u)

----------------------------------------------------------------------------
(* Shutdown requests *)

\* C13: 'shutdown' is emitted at most once and no stop or finish task is
\* invoked twice; a shutdown() call, a signal or the shutdown scheduled by
\* the standalone task that arrives while shuttingDown is set changes no
\* queue and no flag, invokes no task and emits no event.
C13_ShutdownIdempotent ==
    /\ [](/\ emitted["shutdown"] <= 1
          /\ \A t \in TasksOf("stop") \cup TasksOf("finish") : invocations[t] <= 1)
    /\ [][(shuttingDown /\ (Shutdown \/ Signal \/ ShutdownTick))
            => UNCHANGED <<taskQueues, flags, invocations, emitted>>]_vars

\* C13 witness: a shutdown begun by an error (exit code 1) has invoked a
\* stop task, and the shutdown scheduled by the successful standalone task
\* has since arrived as a second request.
C13_Witness ==
    /\ standaloneTask # 0
    /\ outcome[standaloneTask] = "ok"
    /\ "shutdown" \notin pending
    /\ shuttingDown /\ errorCode = 1
    /\ emitted["shutdown"] = 1
    /\ \E t \in TasksOf("stop") : invocations[t] = 1

----------------------------------------------------------------------------
(* Usage errors of the registration calls *)

\* tasks waiting in a queue
QueueTasks(q) ==
    {q.unsorted[i] : i \in DOMAIN q.unsorted}
        \cup UNION {{q.ordered[o][i] : i \in DOMAIN q.ordered[o]} : o \in Orders}

\* the registration call made in this step, when it is one for a phase
NewCall == IF Len(reg') = Len(reg) + 1 /\ reg'[Len(reg')].phase \in EVENTS
           THEN {Len(reg')} ELSE {}

\* C14: a registration call for a phase whose flag is set, or without a
\* task, is refused; a refused call is reported (an 'error' event when a
\* listener is registered, a line of the error log under showErrors) and
\* adds no task to the queue of its phase; a refused task is never in a
\* queue and is never invoked.
C14_RefusedRegistration ==
    /\ [](\A t \in Tasks :
            (reg[t].phase \in EVENTS /\ ~reg[t].accepted)
                => /\ ~Invoked(t)
                   /\ \A e \in EVENTS : t \notin QueueTasks(taskQueues[e]))
    /\ [][\A t \in NewCall :
            LET event == reg'[t].phase
            IN /\ (flags[event] \/ \E e \in EVENTS : RegisterNoTask(e)) => ~reg'[t].accepted
               /\ ~reg'[t].accepted
                     => /\ QueueTasks(taskQueues'[event]) \subseteq QueueTasks(taskQueues[event])
                        /\ errorListener => \E x \in errors' : x.origin \in {"add", "empty"}
                        /\ options.showErrors => log' \cap {"add", "empty"} # {}]_vars

\* C14 witness: a call without a task and a call for the finish phase made
\* after that phase had completed were both refused and reported.
C14_Witness ==
    /\ errorListener
    /\ flags["finish"]
    /\ {"add", "empty"} \subseteq log
    /\ {"add", "empty"} \subseteq {x.origin : x \in errors}
    /\ \E t \in Tasks : reg[t].phase = "finish" /\ ~reg[t].accepted /\ ~Invoked(t)

----------------------------------------------------------------------------
(* Shutdown by error *)

\* this step hands an error to startShutdownByError from outside a phase:
\* a refused registration call, a failing standalone task, a crash
ErrorHandled ==
    \/ Len(reg') = Len(reg) + 1 /\ ~reg'[Len(reg')].accepted
    \/ \E t \in Failing : phaseOf(t) = "standalone"
    \/ Crash

\* C15: a step that handles an error while neither startingUp nor
\* shuttingDown is set begins the shutdown with exit code 1: it sets
\* shuttingDown, emits 'shutdown' and enters the stop phase.  In a shutdown
\* begun with exit code 1 the finish phase is entered only by the step that
\* completes the stop phase, the step that completes the finish phase emits
\* 'end', and every exit request carries the code 1.
C15_ErrorStartsNormalShutdown ==
    /\ [][(~startingUp /\ ~shuttingDown /\ ErrorHandled)
            => /\ shuttingDown' /\ errorCode' = 1
               /\ emitted'["shutdown"] = emitted["shutdown"] + 1
               /\ emitted'["stoping"] = emitted["stoping"] + 1]_vars
    /\ [][errorCode' = 1
            => /\ emitted'["finishing"] > emitted["finishing"] => (~flags["stop"] /\ flags'["stop"])
               /\ (~flags["finish"] /\ flags'["finish"])
                     => /\ emitted'["end"] = emitted["end"] + 1
                        /\ options.exitProcess => exitCode' = 1]_vars
    /\ [](errorCode = 1 /\ exitCode # NoExit => exitCode = 1)

\* C15 witness: the standalone task failed after 'ready'; the shutdown it
\* began ran a stop task and a finish task, emitted 'end' and requested the
\* exit with code 1.
C15_Witness ==
    /\ options.exitProcess
    /\ standaloneTask # 0 /\ outcome[standaloneTask] = "error"
    /\ \E t \in TasksOf("stop") : outcome[t] = "ok"
    /\ \E t \in TasksOf("finish") : outcome[t] = "ok"
    /\ emitted["end"] = 1
    /\ exitCode = 1

\* C16 as stated: a step in which the stop phase reports a failure enters
\* the finish phase.
C16_FinishAfterFailedStop ==
    [][reports'["stop"].error > reports["stop"].error
          => emitted'["finishing"] = emitted["finishing"] + 1]_vars

\* C16 amended: once the stop phase has reported a failure the finish phase
\* is never entered, no finish task is invoked and 'end' is not emitted;
\* the step in which the stop phase reports the failure requests the exit
\* with code 1 when exitProcess is on.
C16_NoFinishAfterFailedStop ==
    /\ [](reports["stop"].error > 0
            => /\ emitted["finishing"] = 0
               /\ emitted["end"] = 0
               /\ \A t \in TasksOf("finish") : ~Invoked(t))
    /\ [][(reports'["stop"].error > reports["stop"].error /\ options.exitProcess)
            => exitCode' = 1]_vars

\* C16 witness: with stopOnError on a stop task signalled an error, the
\* stop phase reported the failure and a registered finish task has not
\* been invoked.
C16_Witness ==
    /\ options.stopOnError
    /\ reports["stop"].error = 1
    /\ \E t \in TasksOf("stop") : outcome[t] = "error"
    /\ \E t \in TasksOf("finish") : ~Invoked(t)

\* an error surfaces in this step while startup is in progress or the
\* finish phase is running: the init, start or finish phase reports a
\* failure, or an error from outside a phase is handled at such a time
Surfaces ==
    \/ \E e \in {"init", "start", "finish"} : reports'[e].error > reports[e].error
    \/ (startingUp \/ (shuttingDown /\ phase = "finish")) /\ ErrorHandled

\* C17: with exitProcess on, a step in which an error surfaces while startup
\* is in progress or the finish phase is running requests the exit with
\* code 1 and 'end' has not been emitted; nothing runs after an exit
\* request, so 'end' is not emitted later either.
C17_ForcedExitWithoutEnd ==
    /\ [][(options.exitProcess /\ Surfaces)
            => exitCode' = 1 /\ emitted'["end"] = 0]_vars
    /\ [][exitCode = NoExit]_vars

\* C17 witness: with exitProcess on a finish task signalled an error under
\* stopOnError; the exit was requested with code 1 and 'end' was not
\* emitted.
C17_Witness ==
    /\ options.exitProcess /\ options.stopOnError
    /\ \E t \in TasksOf("finish") : outcome[t] = "error"
    /\ reports["finish"].error = 1
    /\ exitCode = 1
    /\ emitted["end"] = 0

----------------------------------------------------------------------------
(* Parallel mode *)

\* C18: in parallel mode, when the runner of a phase reports success in a
\* step (the flag is set, the exit event emitted, the next phase begun),
\* every task of the phase invoked before that step has signalled
\* completion by the end of it.
C18_ParallelCompletesAfterAllTasks ==
    [][\A e \in options.parallel :
          reports'[e].ok > reports[e].ok
              => \A t \in TasksOf(e) : Invoked(t) => Signalled(t)']_vars

\* C19: in parallel mode with stopOnError on, when the runner of a phase
\* reports a failure in a step, every task of the phase invoked before that
\* step has signalled completion by the end of it.
C19_ParallelFailureAfterAllTasks ==
    [][\A e \in options.parallel :
          (options.stopOnError /\ reports'[e].error > reports[e].error)
              => \A t \in TasksOf(e) : Invoked(t) => Signalled(t)']_vars

----------------------------------------------------------------------------
(* Names of the events *)

\* exit event the documentation names for each phase
ExitEvent ==
    [e \in EVENTS |-> CASE e = "init" -> "inited"
                        [] e = "start" -> "started"
                        [] e = "stop" -> "stopped"
                        [] e = "finish" -> "finished"]

\* events emitted in this step
EmittedNow == {n \in EventNames : emitted'[n] > emitted[n]}

\* C20: a step in which the runner of a phase reports success emits the
\* exit event the documentation names for that phase, and a step emits the
\* exit event of a phase only when the runner of that phase reports success
\* in it.
C20_DocumentedExitEvents ==
    [][\A e \in EVENTS :
          ExitEvent[e] \in EmittedNow <=> reports'[e].ok > reports[e].ok]_vars

----------------------------------------------------------------------------
(* Exit requests *)

\* C21: the exit is requested with code 0 or 1 and only with exitProcess
\* on; a step requests it with code 0 exactly when it emits 'end' in a
\* shutdown begun with code 0 (not by an error); every other exit request,
\* after 'end' of a shutdown begun by an error or on a forced termination,
\* carries code 1.
C21_ExitCodes ==
    /\ [](exitCode \in {NoExit, 0, 1})
    /\ [](exitCode = 0 => emitted["end"] > 0 /\ errorCode = 0)
    /\ [][(exitCode = NoExit /\ exitCode' # NoExit)
            => /\ options.exitProcess
               /\ exitCode' = 0 <=> (emitted'["end"] > emitted["end"] /\ errorCode' = 0)
               /\ exitCode' = 1 <=> (emitted'["end"] = emitted["end"] \/ errorCode' = 1)]_vars

\* C21 witness: a shutdown requested from outside ran a stop task, emitted
\* 'end' and requested the exit with code 0.
C21_Witness ==
    /\ options.exitProcess
    /\ exitCode = 0
    /\ errorCode = 0
    /\ emitted["end"] = 1
    /\ \E t \in TasksOf("stop") : outcome[t] = "ok"

\* C22: with exitProcess off the exit is never requested.
C22_NoExitWhenOff == ~options.exitProcess => exitCode = NoExit

\* C22 witness: with exitProcess off a shutdown begun by an error reached
\* 'end', and an error was handled during a failed startup of the same
\* controller; no exit was requested.
C22_Witness ==
    /\ ~options.exitProcess
    /\ errorCode = 1
    /\ emitted["end"] = 1
    /\ reports["init"].error = 1
    /\ exitCode = NoExit

----------------------------------------------------------------------------
(* Shutdown during startup *)

\* C23: when shutdown() or a signal starts the shutdown while a task of init
\* or start is in flight, a step that invokes a stop task leaves no task of
\* init or start in flight, and no later step invokes a task of init or
\* start or emits 'ready'.
C23_ShutdownWaitsForStartup ==
    /\ [][(request'.during /\ request'.by \in {"call", "signal"})
            => \A t \in Started :
                 phaseOf(t) = "stop"
                     => \A u \in inflight' : phaseOf(u) \notin {"init", "start"}]_vars
    /\ [][request.during
            => /\ \A t \in Started : phaseOf(t) \notin {"init", "start"}
               /\ emitted'["ready"] = emitted["ready"]]_vars

----------------------------------------------------------------------------
(* Signals *)

\* C24: with catchSignals on, a signal delivered after startup() has run
\* and while shuttingDown is false starts the shutdown: 'shutdown' is
\* emitted and the stop phase begins; in the shutdown it started a finish
\* task is invoked only once every stop task registered before the signal
\* has been invoked, and 'end' is emitted only once every stop and every
\* finish task registered before the signal has been invoked.
\* With catchSignals off a signal leaves every field of the controller as
\* it is.
C24_SignalStartsShutdown ==
    /\ [][(SignalObserved /\ options.catchSignals /\ ~shuttingDown)
            => /\ shuttingDown'
               /\ request'.by = "signal"
               /\ emitted'["shutdown"] = emitted["shutdown"] + 1
               /\ emitted'["stopping"] = emitted["stopping"] + 1
               /\ ("stop" \notin options.parallel /\ remaining(taskQueues["stop"]) > 0)
                     => \E t \in Started : phaseOf(t) = "stop"]_vars
    /\ [][request'.by = "signal"
            => \A t \in Started :
                 phaseOf(t) = "finish"
                     => \A u \in TasksOf("stop") :
                          u <= request'.tasks => invocations'[u] > 0]_vars
    /\ []((request.by = "signal" /\ emitted["end"] > 0)
            => \A u \in TasksOf("stop") \cup TasksOf("finish") :
                 u <= request.tasks => invocations[u] > 0)
    /\ [][(SignalObserved /\ ~options.catchSignals) => UNCHANGED vars]_vars
    /\ [](~options.catchSignals => request.by # "signal")

C24_Witness ==
    /\ options.catchSignals
    /\ request.by = "signal"
    /\ emitted["end"] = 1
    /\ \E t \in TasksOf("stop"), u \in TasksOf("finish") :
            outcome[t] = "ok" /\ outcome[u] = "ok"

----------------------------------------------------------------------------
(* Errors of tasks with stopOnError off *)

\* C25: with stopOnError off, a step in which a task of a phase signals an
\* error delivers no 'error' event, writes nothing to the error log but the
\* line of the failed task, makes no runner report a failure, leaves
\* shuttingDown and the exit code of the shutdown as they are, and requests
\* the exit only when it emits 'end', with the code of the shutdown that was
\* already in progress.
C25_ErrorSwallowed ==
    [][(~options.stopOnError /\ \E t \in Failing : phaseOf(t) \in EVENTS)
        => /\ errors' = errors
           /\ log' = log \cup {"Error in phase"}
           /\ \A e \in EVENTS : reports'[e].error = reports[e].error
           /\ shuttingDown' = shuttingDown
           /\ errorCode' = errorCode
           /\ exitCode' # exitCode
                 => /\ shuttingDown
                    /\ emitted'["end"] > emitted["end"]
                    /\ exitCode' = errorCode]_vars

C25_Witness ==
    /\ ~options.stopOnError
    /\ errorListener
    /\ errors = {}
    /\ ~shuttingDown
    /\ emitted["ready"] = 1
    /\ "Error in phase" \in log
    /\ \E t \in TasksOf("init"), u \in TasksOf("start") :
            /\ outcome[t] = "error" /\ "init" \in options.parallel
            /\ outcome[u] = "error"

----------------------------------------------------------------------------
(* The phase field *)

\* position of a value of this.phase in the order of the life cycle
PhaseRank(p) ==
    CASE p = "pre" -> 0
      [] p = "init" -> 1
      [] p = "start" -> 2
      [] p = "standalone" -> 3
      [] p = "stop" -> 4
      [] p = "finish" -> 5

\* C26: no step takes the phase field to a value that precedes its value
\* before the step in the order pre, init, start, standalone, stop, finish
\* (so that no phase is entered again after a later one).
C26_PhaseForwardOnly == [][PhaseRank(phase') >= PhaseRank(phase)]_vars

----------------------------------------------------------------------------
(* A task that throws *)

\* what the claims about a failing task observe of the controller: the
\* invocations of the tasks, the events, the decisions of shutdown and exit
Decisions(s) ==
    [invocations |-> s.invocations, emitted |-> s.emitted,
     shuttingDown |-> s.shuttingDown, exitCode |-> s.exitCode]

----------------------------------------------------------------------------
(* The slow-task timer *)

\* C28: a step in which the timer of a task fires changes nothing of the
\* controller but the timer and the record of the warning: no task is
\* invoked, completed or removed from flight, and no queue, flag, event or
\* decision changes; the phase of a warned task in flight is not complete;
\* and the warning is never logged for a task that has called back.
C28_SlowTaskOnlyWarns ==
    /\ [][SlowTask
            => /\ warned' # warned
               /\ St' = [St EXCEPT !.timers = timers', !.warned = warned']]_vars
    /\ [](\A t \in warned \cap inflight : ~flags[phaseOf(t)])
    /\ [][\A t \in warned' \ warned : outcome[t] \notin {"ok", "error"}]_vars

C28_Witness ==
    \E t \in warned \cap TasksOf("init"), u \in warned \cap TasksOf("start") :
        /\ outcome[t] = "ok"
        /\ outcome[u] = "error"
        /\ flags["init"]
        /\ emitted["inited"] = 1

----------------------------------------------------------------------------
(* The deferred startup *)

\* registration calls made so far for the phases of a set
CallsFor(phases) == {t \in 1..Len(reg) : reg[t].phase \in phases}

\* C29: create() leaves the startup scheduled and not begun; as long as it
\* is scheduled 'startup' has not been emitted and no task of init or start
\* has been invoked (and no task at all unless a shutdown has begun); the
\* startup begins only in the step of the deferred call, and then every
\* registration made so far for init or start was accepted and is in its
\* queue (and every registration for stop or finish too unless a shutdown
\* has begun).
C29_StartupDeferred ==
    /\ "startup" \in pending
    /\ [](("startup" \in pending)
            => /\ emitted["startup"] = 0
               /\ ~startingUp
               /\ \A t \in CallsFor({"init", "start"}) : invocations[t] = 0
               /\ ~shuttingDown => \A t \in 1..MaxTasks : invocations[t] = 0)
    /\ [][(emitted'["startup"] > emitted["startup"])
            => /\ ReallyStartup
               /\ \A t \in CallsFor(IF shuttingDown THEN {"init", "start"} ELSE EVENTS) :
                     /\ reg[t].accepted
                     /\ t \in QueueTasks(taskQueues[reg[t].phase])]_vars

C29_Witness ==
    /\ emitted["startup"] = 1
    /\ "init" \in options.parallel
    /\ total["init"] = 2
    /\ \E t \in TasksOf("init") : invocations[t] = 1

----------------------------------------------------------------------------
(* The 'error' listener *)

\* the controller with its 'error' listener removed and no event delivered
Unheard == [St EXCEPT !.listener = FALSE, !.errors = {}]

\* everything of a controller but its listener and the events delivered to it
Control(s) == [s EXCEPT !.listener = FALSE, !.errors = {}]

\* C30: in every state of a controller with an 'error' listener, each
\* handler that can run (a refused registration, a second standalone, the
\* deferred startup, a signal or shutdown(), a crash, a task calling back
\* with or without an error) leaves the controller as it leaves the one without
\* listener that is otherwise in the same state, but for the 'error' events
\* delivered; with a listener every error written to the error log by
\* manageInternalError or manageCrash was delivered as an 'error' event, and
\* without one no 'error' event is delivered.
C30_ListenerChangesNothingElse ==
    /\ (errorListener /\ exitCode = NoExit)
         => /\ \A o \in {"empty"} \cup (IF \E e \in EVENTS : flags[e] THEN {"add"} ELSE {})
                              \cup (IF standaloneTask # 0 THEN {"already"} ELSE {}) :
                  Control(manageInternalError(St, o, 0))
                      = Control(manageInternalError(Unheard, o, 0))
            /\ "startup" \in pending
                  => Control(reallyStartup(St)) = Control(reallyStartup(Unheard))
            /\ Control(signalled(St)) = Control(signalled(Unheard))
            /\ installed
                  => Control(manageCrash(St)) = Control(manageCrash(Unheard))
            /\ \A t \in inflight : \A e \in {0, t} :
                  Control(taskCallback(St, t, e)) = Control(taskCallback(Unheard, t, e))
    /\ errorListener => \A o \in log \ {"Error in phase"} : \E x \in errors : x.origin = o
    /\ ~errorListener => errors = {}

C30_Witness ==
    /\ errorListener
    /\ \E x \in errors : x.origin = "stop"
    /\ \E x \in errors : x.origin = "empty"
    /\ shuttingDown
    /\ errorCode = 1

----------------------------------------------------------------------------
(* A second startup *)

\* C31: a step in which reallyStartup runs for the second time or later
\* (the handlers of the first run are installed) reports an error (an
\* 'error' event with a listener, a line of the error log under
\* showErrors), requests the exit with code 1 under exitProcess, invokes no
\* task and emits no 'ready'; no task of init or start is ever invoked
\* twice, and 'ready' is never emitted twice.
C31_SecondStartupRejected ==
    /\ [][(ReallyStartup /\ installed)
            => /\ errorListener => \E x \in errors' : x.origin \in {"again", "init"}
               /\ options.showErrors => log' \cap {"again", "init"} # {}
               /\ options.exitProcess => exitCode' = 1
               /\ Started = {}
               /\ emitted'["ready"] = emitted["ready"]]_vars
    /\ [](\A t \in TasksOf("init") \cup TasksOf("start") : invocations[t] <= 1)
    /\ [](emitted["ready"] <= 1)

C31_Witness ==
    /\ emitted["startup"] = 2
    /\ emitted["ready"] = 1
    /\ "init" \in log
    /\ \E t \in TasksOf("init"), u \in TasksOf("start") :
            invocations[t] = 1 /\ invocations[u] = 1

----------------------------------------------------------------------------
(* Tasks are invoked once *)

\* C32: no task is ever invoked more than once; a task that has been
\* invoked is in no queue, neither in this.taskQueues nor in the queue a
\* runner holds.
C32_InvokedAtMostOnce ==
    [](/\ \A t \in 1..MaxTasks : invocations[t] <= 1
       /\ \A e \in EVENTS :
             \A t \in QueueTasks(taskQueues[e]) \cup QueueTasks(held[e].queue) :
                invocations[t] = 0)

C32_Witness ==
    /\ emitted["end"] = 1
    /\ Len(reg) = MaxTasks
    /\ \A t \in 1..MaxTasks : reg[t].accepted /\ invocations[t] = 1
    /\ \E t \in TasksOf("init") : outcome[t] = "error"
    /\ TasksOf("stop") # {}
    /\ errorCode = 1

----------------------------------------------------------------------------
(* Usage errors *)

\* this step is a registration call that is refused
Refused == Len(reg') > Len(reg) /\ ~reg'[Len(reg')].accepted

\* the step is a misuse of the controller that manageInternalError handles:
\* a registration call that is refused (a second standalone, a registration
\* for a phase that has run), a second run of reallyStartup
Misuse ==
    \/ Refused
    \/ installed /\ "startup" \in pending /\ "startup" \notin pending'

MisuseOrigins == {"already", "add", "again", "init"}

\* C33: under every setting of the options, a step that is a misuse
\* delivers an 'error' event or writes a line of the error log, and a
\* shutdown() call made when the shutdown has begun writes a warning.
C33_UsageErrorReported ==
    /\ [][Misuse => \/ \E x \in errors' : x.origin \in MisuseOrigins
                    \/ log' \cap MisuseOrigins # {}]_vars
    /\ [][(shuttingDown /\ ShutdownLogged) => warnings' # {}]_vars

\* C33, amended: a step that is a misuse delivers an 'error' event when a
\* listener is registered and writes a line of the error log when
\* showErrors is on, and reports nothing when neither holds; a shutdown()
\* call made when the shutdown has begun writes a warning when showErrors is
\* on and is ignored otherwise, and never delivers an 'error' event.
C33_UsageErrorReportedIfObserved ==
    /\ [][Misuse
            => /\ errorListener => \E x \in errors' : x.origin \in MisuseOrigins
               /\ options.showErrors => log' \cap MisuseOrigins # {}
               /\ ~errorListener => errors' = {}
               /\ ~options.showErrors => log' = {}]_vars
    /\ [](shuttingDown => shutdown(St, 0) = St)
    /\ [][(shuttingDown /\ ShutdownLogged)
            => /\ options.showErrors => warnings' # {}
               /\ errors' = errors]_vars
    /\ [](~options.showErrors => warnings = {})

C33_Witness ==
    /\ ~options.showErrors
    /\ ~errorListener
    /\ shuttingDown
    /\ errorCode = 1
    /\ \E t \in 1..Len(reg) : reg[t].phase = "standalone" /\ ~reg[t].accepted

----------------------------------------------------------------------------
(* The flag of a phase *)

\* tasks of a phase that wait in the queue its runner works on
Waiting(event) ==
    QueueTasks(IF held[event].on THEN held[event].queue ELSE taskQueues[event])

\* C34: the flag of a phase is set at most once and never cleared; at the
\* step that sets it the queue of the phase is empty, no task of the phase
\* is in flight and, with stopOnError on, no task of the phase has failed;
\* a run of a phase whose flag is set invokes no task and reports the
\* 'already run' error.
C34_FlagSetOnceWhenDrained ==
    /\ [](\A e \in EVENTS : reports[e].ok <= 1 /\ (flags[e] <=> reports[e].ok = 1))
    /\ [][\A e \in EVENTS : flags[e] => flags'[e]]_vars
    /\ [][\A e \in EVENTS :
            (~flags[e] /\ flags'[e])
                => /\ Waiting(e)' = {}
                   /\ \A t \in inflight' : phaseOf(t) # e
                   /\ options.stopOnError
                        => \A t \in TasksOf(e) : outcome'[t] # "error"]_vars
    /\ [][(ReallyStartup /\ installed /\ ~startingUp /\ flags["init"])
            => /\ \A t \in 1..MaxTasks : invocations'[t] = invocations[t]
               /\ options.showErrors => "init" \in log']_vars

----------------------------------------------------------------------------
(* Sequential and parallel runners *)

\* tasks of a phase that are in flight
InFlightOf(event) == {t \in inflight : phaseOf(t) = event}

\* C35: in a phase in sequential mode at most one task is in flight, and a
\* step that invokes a task of the phase finds every task of the phase
\* invoked earlier with its completion signalled.
C35_SequentialOneInFlight ==
    /\ [](\A e \in EVENTS \ options.parallel : Cardinality(InFlightOf(e)) <= 1)
    /\ [][\A t \in 1..MaxTasks :
            (/\ invocations'[t] > invocations[t]
             /\ phaseOf(t)' \in EVENTS \ options.parallel)
                => \A u \in (1..Len(reg')) \ {t} :
                      (phaseOf(u)' = phaseOf(t)' /\ invocations'[u] > 0)
                          => outcome'[u] # "none"]_vars

C35_Witness ==
    /\ "init" \notin options.parallel
    /\ Len(reg) = MaxTasks
    /\ \A t \in 1..MaxTasks : reg[t].phase = "init" /\ reg[t].accepted
    /\ \E t \in 1..MaxTasks :
          /\ inflight = {t}
          /\ \E u \in 1..MaxTasks : outcome[u] = "ok"
          /\ \E u \in 1..MaxTasks : invocations[u] = 0

\* the loop of runInParallel starts a task in this step
StartsNext == ParallelStep /\ invocations' # invocations

\* the loop of runInParallel, taking its next step now, starts a task
CanStartNext == whileRemaining(St, Head(loop)).invocations # invocations

\* tasks that were in the queue of a phase when runInParallel read total
AtEntry(event) ==
    {t \in TasksOf(event) :
        Cardinality({u \in TasksOf(event) : u <= t}) <= total[event]}

\* C36: in a phase in parallel mode, the task a step starts is the task the
\* sequential runner would start from the same queue, and the tasks of one
\* bucket start in the order of their registration; once the loop of the
\* phase has returned every task queued when the phase was entered has been
\* started; and while tasks wait in the queue the loop can start the next
\* one whatever is in flight, a start completing no task.
C36_ParallelStartsAll ==
    /\ [][\A t \in Started :
            phaseOf(t)' \in EVENTS \cap options.parallel
                => /\ (runQueue(St, phaseOf(t)').inflight \ inflight) = {t}
                   /\ \A u \in TasksOf(phaseOf(t))' :
                         (u # t /\ reg'[u].order = reg'[t].order)
                             => (Invoked(u) <=> u < t)]_vars
    /\ [](\A e \in EVENTS \cap options.parallel :
            ((\A i \in DOMAIN loop : loop[i] # e) /\ exitCode = NoExit)
                => \A t \in AtEntry(e) : Invoked(t))
    /\ []((loop # <<>> /\ exitCode = NoExit)
            => (Waiting(Head(loop)) # {} => CanStartNext))
    /\ [][StartsNext => (inflight \subseteq inflight' /\ outcome' = outcome)]_vars

C36_Witness ==
    /\ "init" \in options.parallel
    /\ loop = <<>>
    /\ total["init"] = MaxTasks
    /\ inflight = 1..MaxTasks
    /\ \E t \in 1..MaxTasks, u \in 1..MaxTasks :
          reg[t].order # NoOrder /\ reg[u].order = NoOrder

----------------------------------------------------------------------------
(* Termination *)

\* no registration call made so far was refused as a usage error
NoMisuse == \A t \in Tasks : reg[t].accepted

Ended == emitted["end"] > 0

----------------------------------------------------------------------------
(* Accepted tasks *)

\* C38: when the exit event of a phase has been emitted, every task a
\* registration call accepted into that phase has been invoked, and the
\* step that emits the exit event leaves none of them waiting.
C38_AcceptedTasksInvoked ==
    /\ [](\A e \in EVENTS :
            emitted[e \o "ed"] > 0 => \A t \in TasksOf(e) : Invoked(t))
    /\ [][\A e \in EVENTS :
            emitted'[e \o "ed"] > emitted[e \o "ed"] => Waiting(e)' = {}]_vars

----------------------------------------------------------------------------
(* Usage errors before the startup *)

\* C39: a registration call refused while the phase is 'pre' (a second
\* standalone, a call without a task) neither begins the stop or the finish
\* phase nor invokes a stop or a finish task; and no stop or finish task is
\* invoked while the phase is 'pre'.
C39_NoShutdownFromPre ==
    /\ [][(phase = "pre" /\ Refused)
            => /\ \A t \in Started : phaseOf(t) \notin {"stop", "finish"}
               /\ emitted'["stopping"] = emitted["stopping"]
               /\ emitted'["finishing"] = emitted["finishing"]]_vars
    /\ [](phase = "pre"
            => \A t \in TasksOf("stop") \cup TasksOf("finish") : ~Invoked(t))

----------------------------------------------------------------------------
(* The outcome of a parallel phase *)

\* times the runner of a phase has called back
Reported(event) == reports[event].ok + reports[event].error

\* the run of a phase in parallel mode is over: the phase was entered, its
\* loop has returned and every task of it that was invoked has signalled
RunOver(event) ==
    /\ emitted[event \o "ing"] > 0
    /\ \A i \in DOMAIN loop : loop[i] # event
    /\ \A t \in TasksOf(event) : Invoked(t) => Signalled(t)

\* C40: in parallel mode the runner of a phase calls back at most once,
\* and it has called back once when the run of the phase is over and the
\* process has not been ended.
C40_ParallelReportsOnce ==
    [](\A e \in EVENTS \cap options.parallel :
          /\ Reported(e) <= 1
          /\ (RunOver(e) /\ exitCode = NoExit) => Reported(e) = 1)

C40_Witness ==
    /\ "init" \in options.parallel
    /\ options.stopOnError
    /\ exitCode = NoExit
    /\ RunOver("init")
    /\ reports["init"] = [error |-> 1, ok |-> 0]
    /\ \E t \in TasksOf("init"), u \in TasksOf("init") :
          t # u /\ outcome[t] = "error" /\ outcome[u] = "error"

====
